---------------------------- MODULE Spec2Model ----------------------------
(***************************************************************************)
(* A model of the SVG backend of gogpu/gg-svg (backend.go).                *)
(*                                                                         *)
(* A strings.Builder is modelled as the sequence of the pieces written to  *)
(* it: one piece per literal and one per formatted operand of each         *)
(* WriteString/Sprintf.  The text of a buffer is the concatenation of its  *)
(* pieces and its byte length the sum of their lengths.                    *)
(***************************************************************************)
EXTENDS Integers, Sequences, FiniteSets, TLC

\* The number of appending operations (Save, SetClip, drawing calls) the
\* model lets one document receive between two Begin calls.
MaxOps == 2

(***************************************************************************)
(* Values of the collaborating packages (gg, recording) that backend.go    *)
(* reads.                                                                  *)
(***************************************************************************)

\* recording.Matrix: the six fields backend.go reads.
Matrix(a, b, c, d, e, f) == [A |-> a, B |-> b, C |-> c, D |-> d, E |-> e, F |-> f]

\* The zero value of recording.Matrix: what a Backend holds before Begin.
ZeroMatrix == Matrix(0, 0, 0, 0, 0, 0)

\* recording.Identity()
Identity == Matrix(1, 0, 0, 0, 1, 0)

\* m.IsIdentity()
IsIdentity(m) == m = Identity

\* recording.Translate(10, 20)
Translate1 == Matrix(1, 0, 10, 0, 1, 20)

\* A *gg.Path is nil or holds a sequence of elements; an element is a
\* record whose kind is the Go type of the element.
NilPath == [nil |-> TRUE, Elements |-> <<>>]

Path(elems) == [nil |-> FALSE, Elements |-> elems]

MoveTo(x, y) == [kind |-> "MoveTo", X |-> x, Y |-> y]

LineTo(x, y) == [kind |-> "LineTo", X |-> x, Y |-> y]

QuadTo(cx, cy, x, y) == [kind |-> "QuadTo", CX |-> cx, CY |-> cy, X |-> x, Y |-> y]

CubicTo(ax, ay, bx, by, x, y) ==
    [kind |-> "CubicTo", C1X |-> ax, C1Y |-> ay, C2X |-> bx, C2Y |-> by, X |-> x, Y |-> y]

Close == [kind |-> "Close"]

\* Colours: gg.RGBA holds float64 channels in [0, 1]; the model holds each
\* channel in hundredths (100 is 1.0).
RGBA(r, g, b, a) == [R |-> r, G |-> g, B |-> b, A |-> a]

Red == RGBA(100, 0, 0, 100)

Green == RGBA(0, 100, 0, 100)

HalfBlue == RGBA(0, 0, 100, 50)

\* A gradient stop: offset in hundredths.
Stop(o, c) == [Offset |-> o, Color |-> c]

\* Brushes: the kind is the dynamic type the type switches match.
SolidBrush(c) == [kind |-> "SolidBrush", Color |-> c]

LinearGradientBrush(sx, sy, ex, ey, stops, extend) ==
    [kind |-> "LinearGradientBrush", StartX |-> sx, StartY |-> sy,
     EndX |-> ex, EndY |-> ey, Stops |-> stops, Extend |-> extend]

RadialGradientBrush(cx, cy, fx, fy, r, stops, extend) ==
    [kind |-> "RadialGradientBrush", CenterX |-> cx, CenterY |-> cy,
     FocusX |-> fx, FocusY |-> fy, EndRadius |-> r, Stops |-> stops, Extend |-> extend]

SweepGradientBrush(stops) == [kind |-> "SweepGradientBrush", Stops |-> stops]

NilBrush == [kind |-> "nil"]

\* recording.Stroke
Stroke(w, cap, join, miter, dash, off) ==
    [Width |-> w, Cap |-> cap, Join |-> join, MiterLimit |-> miter,
     DashPattern |-> dash, DashOffset |-> off]

\* recording.Rect with its Width() and Height()
Rect(x0, y0, x1, y1) == [MinX |-> x0, MinY |-> y0, MaxX |-> x1, MaxY |-> y1]

RectWidth(r) == r.MaxX - r.MinX

RectHeight(r) == r.MaxY - r.MinY

(***************************************************************************)
(* Formatting.                                                             *)
(***************************************************************************)

\* fmt's %d
FmtD(n) == ToString(n)

\* fmt's %g of an integral float64 (the coordinates the model draws with)
FmtG(x) == ToString(x)

\* fmt's %g of h/100 for 0 <= h <= 100 (alpha, stop offsets)
FmtGFrac(h) ==
    IF h = 0 THEN "0"
    ELSE IF h = 100 THEN "1"
    ELSE IF h % 10 = 0 THEN "0." \o ToString(h \div 10)
    ELSE IF h < 10 THEN "0.0" \o ToString(h)
    ELSE "0." \o ToString(h)

\* The text of a buffer: the concatenation of its pieces.
RECURSIVE String(_)
String(buf) ==
    IF Len(buf) = 0 THEN ""
    ELSE IF Len(buf) = 1 THEN buf[1]
    ELSE LET half == Len(buf) \div 2
         IN  String(SubSeq(buf, 1, half)) \o String(SubSeq(buf, half + 1, Len(buf)))

\* len() of the text of a buffer, in bytes.
RECURSIVE ByteLen(_)
ByteLen(buf) ==
    IF Len(buf) = 0 THEN 0
    ELSE IF Len(buf) = 1 THEN Len(buf[1])
    ELSE LET half == Len(buf) \div 2
         IN  ByteLen(SubSeq(buf, 1, half)) + ByteLen(SubSeq(buf, half + 1, Len(buf)))

\* strings.ReplaceAll(s, old, new) for a one-character old
RECURSIVE ReplaceAll(_, _, _)
ReplaceAll(s, old, new) ==
    IF Len(s) = 0 THEN ""
    ELSE (IF SubSeq(s, 1, 1) = old THEN new ELSE SubSeq(s, 1, 1))
         \o ReplaceAll(SubSeq(s, 2, Len(s)), old, new)

\* escapeXML with the ampersand replaced last instead of first.
escapeXMLAmpersandLast(s) ==
    LET s1 == ReplaceAll(s, "<", "&lt;")
        s2 == ReplaceAll(s1, ">", "&gt;")
        s3 == ReplaceAll(s2, "\"", "&quot;")
        s4 == ReplaceAll(s3, "'", "&apos;")
    IN  ReplaceAll(s4, "&", "&amp;")

escapeXML(s) ==
    LET s1 == ReplaceAll(s, "&", "&amp;")
        s2 == ReplaceAll(s1, "<", "&lt;")
        s3 == ReplaceAll(s2, ">", "&gt;")
        s4 == ReplaceAll(s3, "\"", "&quot;")
    IN  ReplaceAll(s4, "'", "&apos;")

\* int(c.R * 255) and the like: truncation of channel * 255
colorToCSS(c) ==
    <<"rgb(", FmtD((c.R * 255) \div 100), ",", FmtD((c.G * 255) \div 100), ",",
      FmtD((c.B * 255) \div 100), ")">>

\* One path element's command; an element of another type matches no case
\* of the switch and writes nothing.
elemToD(e) ==
    CASE e.kind = "MoveTo" -> <<"M", FmtG(e.X), " ", FmtG(e.Y)>>
      [] e.kind = "LineTo" -> <<"L", FmtG(e.X), " ", FmtG(e.Y)>>
      [] e.kind = "QuadTo" ->
            <<"Q", FmtG(e.CX), " ", FmtG(e.CY), " ", FmtG(e.X), " ", FmtG(e.Y)>>
      [] e.kind = "CubicTo" ->
            <<"C", FmtG(e.C1X), " ", FmtG(e.C1Y), " ", FmtG(e.C2X), " ", FmtG(e.C2Y),
              " ", FmtG(e.X), " ", FmtG(e.Y)>>
      [] e.kind = "Close" -> <<"Z">>
      [] OTHER -> <<>>

\* elemsToD writing the last element's command first.
RECURSIVE elemsToDReversed(_)
elemsToDReversed(elems) ==
    IF elems = <<>> THEN <<>>
    ELSE elemsToDReversed(Tail(elems)) \o elemToD(Head(elems))

RECURSIVE elemsToD(_)
elemsToD(elems) ==
    IF elems = <<>> THEN <<>> ELSE elemToD(Head(elems)) \o elemsToD(Tail(elems))

pathToD(path) == elemsToD(path.Elements)


(***************************************************************************)
(* The Backend.                                                            *)
(***************************************************************************)
VARIABLES
    width, height,        \* Backend.width, Backend.height
    builder,              \* Backend.builder: the content buffer
    defs,                 \* Backend.defs: the definitions buffer
    groupDepth,           \* Backend.groupDepth
    idCounter,            \* Backend.idCounter
    stateStack,           \* Backend.stateStack
    currentTransform,     \* Backend.currentTransform
    currentClipID,        \* Backend.currentClipID
    sink,                 \* the Write calls the io.Writer of the last WriteTo received
    ret,                  \* what the last call returned: [n, err]
    call,                 \* history: the last call, the stack length before it,
                          \* whether it is a WriteTo right after a WriteTo, and
                          \* whether it is a Begin that found a document in use
    savedAt,              \* history: the (transform, clip) current at each open Save
    ops                   \* appending operations since the last Begin

backend == <<width, height, builder, defs, groupDepth, idCounter, stateStack,
             currentTransform, currentClipID>>

vars == <<width, height, builder, defs, groupDepth, idCounter, stateStack,
          currentTransform, currentClipID, sink, ret, call, savedAt, ops>>

backendState(t, c) == [transform |-> t, clipID |-> c]

\* Append to the content buffer only.
Emit(pieces) ==
    /\ builder' = builder \o pieces
    /\ UNCHANGED <<width, height, defs, groupDepth, idCounter, stateStack,
                   currentTransform, currentClipID>>

\* Append to the content buffer, and to the definitions buffer with the
\* counter advanced, as a paint that adds a gradient does.
EmitPaint(before, paint, after) ==
    /\ builder' = builder \o before \o paint.attrs \o after
    /\ defs' = defs \o paint.defs
    /\ idCounter' = paint.counter
    /\ UNCHANGED <<width, height, groupDepth, stateStack, currentTransform,
                   currentClipID>>

\* Begin without the reset of groupDepth.
BeginKeepsDepth(w, h) ==
    /\ width' = w
    /\ height' = h
    /\ builder' = <<>>
    /\ defs' = <<>>
    /\ idCounter' = 0
    /\ stateStack' = <<>>
    /\ currentTransform' = Identity
    /\ currentClipID' = ""
    /\ UNCHANGED groupDepth

\* Begin without the reset of the definitions buffer.
BeginKeepsDefs(w, h) ==
    /\ width' = w
    /\ height' = h
    /\ builder' = <<>>
    /\ groupDepth' = 0
    /\ idCounter' = 0
    /\ stateStack' = <<>>
    /\ currentTransform' = Identity
    /\ currentClipID' = ""
    /\ UNCHANGED defs

Begin(w, h) ==
    /\ width' = w
    /\ height' = h
    /\ builder' = <<>>
    /\ defs' = <<>>
    /\ groupDepth' = 0
    /\ idCounter' = 0
    /\ stateStack' = <<>>
    /\ currentTransform' = Identity
    /\ currentClipID' = ""

End == UNCHANGED backend

\* Save without the increment of groupDepth.
SaveUncounted ==
    /\ stateStack' = Append(stateStack, backendState(currentTransform, currentClipID))
    /\ builder' = builder \o <<"<g>">>
    /\ UNCHANGED <<width, height, defs, groupDepth, idCounter, currentTransform,
                   currentClipID>>

Save ==
    /\ stateStack' = Append(stateStack, backendState(currentTransform, currentClipID))
    /\ builder' = builder \o <<"<g>">>
    /\ groupDepth' = groupDepth + 1
    /\ UNCHANGED <<width, height, defs, idCounter, currentTransform, currentClipID>>

\* Restore that, on an empty stack, falls back to the state Begin leaves.
RestoreDefaultsOnEmpty ==
    IF Len(stateStack) = 0
    THEN /\ currentTransform' = Identity
         /\ currentClipID' = ""
         /\ UNCHANGED <<width, height, builder, defs, groupDepth, idCounter, stateStack>>
    ELSE LET state == stateStack[Len(stateStack)]
         IN  /\ stateStack' = SubSeq(stateStack, 1, Len(stateStack) - 1)
             /\ currentTransform' = state.transform
             /\ currentClipID' = state.clipID
             /\ IF groupDepth > 0
                THEN /\ builder' = builder \o <<"</g>">>
                     /\ groupDepth' = groupDepth - 1
                ELSE UNCHANGED <<builder, groupDepth>>
             /\ UNCHANGED <<width, height, defs, idCounter>>

Restore ==
    IF Len(stateStack) = 0
    THEN UNCHANGED backend
    ELSE LET state == stateStack[Len(stateStack)]
         IN  /\ stateStack' = SubSeq(stateStack, 1, Len(stateStack) - 1)
             /\ currentTransform' = state.transform
             /\ currentClipID' = state.clipID
             /\ IF groupDepth > 0
                THEN /\ builder' = builder \o <<"</g>">>
                     /\ groupDepth' = groupDepth - 1
                ELSE UNCHANGED <<builder, groupDepth>>
             /\ UNCHANGED <<width, height, defs, idCounter>>

\* SetTransform that writes through to the newest saved state, as a stack of
\* references to one shared state would.
SetTransformAliased(m) ==
    /\ currentTransform' = m
    /\ stateStack' = IF stateStack = <<>> THEN stateStack
                     ELSE [stateStack EXCEPT ![Len(stateStack)].transform = m]
    /\ UNCHANGED <<width, height, builder, defs, groupDepth, idCounter, currentClipID>>

SetTransform(m) ==
    /\ currentTransform' = m
    /\ UNCHANGED <<width, height, builder, defs, groupDepth, idCounter, stateStack,
                   currentClipID>>

\* nextID without the increment.
nextIDNoIncrement(prefix) ==
    [counter |-> idCounter, id |-> prefix \o FmtD(idCounter)]

\* nextID: the counter after the increment and the ID made of it.
nextID(prefix) ==
    [counter |-> idCounter + 1, id |-> prefix \o FmtD(idCounter + 1)]

\* SetClip that marks every clip path even-odd, whatever the rule.
SetClipAlwaysEvenOdd(path, rule) ==
    IF path.nil
    THEN UNCHANGED backend
    ELSE LET next == nextID("clip")
         IN  /\ idCounter' = next.counter
             /\ currentClipID' = next.id
             /\ defs' = defs \o <<"<clipPath id=\"", next.id, "\">">>
                             \o <<"<path d=\"">> \o pathToD(path) \o <<"\"">>
                             \o <<" clip-rule=\"evenodd\"">>
                             \o <<"/></clipPath>">>
             /\ UNCHANGED <<width, height, builder, groupDepth, stateStack,
                            currentTransform>>

SetClip(path, rule) ==
    IF path.nil
    THEN UNCHANGED backend
    ELSE LET next == nextID("clip")
         IN  /\ idCounter' = next.counter
             /\ currentClipID' = next.id
             /\ defs' = defs \o <<"<clipPath id=\"", next.id, "\">">>
                             \o <<"<path d=\"">> \o pathToD(path) \o <<"\"">>
                             \o (IF rule = "FillRuleEvenOdd"
                                 THEN <<" clip-rule=\"evenodd\"">> ELSE <<>>)
                             \o <<"/></clipPath>">>
             /\ UNCHANGED <<width, height, builder, groupDepth, stateStack,
                            currentTransform>>

\* ClearClip that also drops the definitions written so far.
ClearClipDropsDefs ==
    /\ currentClipID' = ""
    /\ defs' = <<>>
    /\ UNCHANGED <<width, height, builder, groupDepth, idCounter, stateStack,
                   currentTransform>>

ClearClip ==
    /\ currentClipID' = ""
    /\ UNCHANGED <<width, height, builder, defs, groupDepth, idCounter, stateStack,
                   currentTransform>>

\* writeTransform: what it writes to the content buffer.
writeTransform ==
    LET m == currentTransform
    IN  IF IsIdentity(m) THEN <<>>
        ELSE <<" transform=\"matrix(", FmtG(m.A), ",", FmtG(m.B), ",", FmtG(m.D), ",",
               FmtG(m.E), ",", FmtG(m.C), ",", FmtG(m.F), ")\"">>

\* writeClip: what it writes to the content buffer.
\* writeClip that refers to the newest ID whether or not a clip is current.
writeClipNewest ==
    IF idCounter > 0
    THEN <<" clip-path=\"url(#", "clip" \o FmtD(idCounter), ")\"">> ELSE <<>>

writeClip ==
    IF currentClipID # "" THEN <<" clip-path=\"url(#", currentClipID, ")\"">> ELSE <<>>

(***************************************************************************)
(* Paint and stroke encoders.  Each yields what it appends: attrs to the   *)
(* content buffer, defs to the definitions buffer, and the ID counter it   *)
(* leaves.                                                                 *)
(***************************************************************************)
Paint(a, d, c) == [attrs |-> a, defs |-> d, counter |-> c]

\* The <stop> elements of a gradient, in input order.
RECURSIVE stopsToDefs(_)
stopsToDefs(stops) ==
    IF stops = <<>> THEN <<>>
    ELSE LET stop == Head(stops)
         IN  <<"<stop offset=\"", FmtGFrac(stop.Offset), "\" stop-color=\"">>
             \o colorToCSS(stop.Color) \o <<"\"">>
             \o (IF stop.Color.A < 100
                 THEN <<" stop-opacity=\"", FmtGFrac(stop.Color.A), "\"">> ELSE <<>>)
             \o <<"/>">>
             \o stopsToDefs(Tail(stops))

\* The spread attribute written for br.Extend.
spreadMethod(extend) ==
    CASE extend = "ExtendRepeat" -> <<" spreadMethod=\"repeat\"">>
      [] extend = "ExtendReflect" -> <<" spreadMethod=\"reflect\"">>
      [] OTHER -> <<>>

\* addLinearGradient that, once a linear gradient is defined, hands out the
\* ID of the first one instead of defining another.
addLinearGradientShared(br) ==
    LET opener == "<linearGradient id=\""
        at == {i \in 1..Len(defs) : defs[i] = opener}
        next == nextID("lg")
        dx == br.EndX - br.StartX
        dy == br.EndY - br.StartY
        positive == dx * dx + dy * dy > 0
    IN  IF at # {}
        THEN [id |-> defs[(CHOOSE i \in at : \A j \in at : i <= j) + 1],
              counter |-> idCounter, defs |-> <<>>]
        ELSE [id |-> next.id, counter |-> next.counter,
              defs |-> <<"<linearGradient id=\"", next.id,
                         "\" gradientUnits=\"userSpaceOnUse\" x1=\"", FmtG(br.StartX),
                         "\" y1=\"", FmtG(br.StartY), "\" x2=\"", FmtG(br.EndX),
                         "\" y2=\"", FmtG(br.EndY), "\">">>
                       \o (IF positive THEN spreadMethod(br.Extend) ELSE <<>>)
                       \o stopsToDefs(br.Stops)
                       \o <<"</linearGradient>">>]

addLinearGradient(br) ==
    LET next == nextID("lg")
        dx == br.EndX - br.StartX
        dy == br.EndY - br.StartY
        \* length > 0, length being math.Sqrt(dx*dx + dy*dy)
        positive == dx * dx + dy * dy > 0
    IN  [id |-> next.id, counter |-> next.counter,
         defs |-> <<"<linearGradient id=\"", next.id,
                    "\" gradientUnits=\"userSpaceOnUse\" x1=\"", FmtG(br.StartX),
                    "\" y1=\"", FmtG(br.StartY), "\" x2=\"", FmtG(br.EndX),
                    "\" y2=\"", FmtG(br.EndY), "\">">>
                  \o (IF positive THEN spreadMethod(br.Extend) ELSE <<>>)
                  \o stopsToDefs(br.Stops)
                  \o <<"</linearGradient>">>]

addRadialGradient(br) ==
    LET next == nextID("rg")
    IN  [id |-> next.id, counter |-> next.counter,
         defs |-> <<"<radialGradient id=\"", next.id,
                    "\" gradientUnits=\"userSpaceOnUse\" cx=\"", FmtG(br.CenterX),
                    "\" cy=\"", FmtG(br.CenterY), "\" r=\"", FmtG(br.EndRadius),
                    "\" fx=\"", FmtG(br.FocusX), "\" fy=\"", FmtG(br.FocusY), "\">">>
                  \o spreadMethod(br.Extend)
                  \o stopsToDefs(br.Stops)
                  \o <<"</radialGradient>">>]

writeFill(brush) ==
    CASE brush.kind = "SolidBrush" ->
            Paint(<<" fill=\"">> \o colorToCSS(brush.Color) \o <<"\"">>
                  \o (IF brush.Color.A < 100
                      THEN <<" fill-opacity=\"", FmtGFrac(brush.Color.A), "\"">>
                      ELSE <<>>),
                  <<>>, idCounter)
      [] brush.kind = "LinearGradientBrush" ->
            LET g == addLinearGradient(brush)
            IN  Paint(<<" fill=\"url(#", g.id, ")\"">>, g.defs, g.counter)
      [] brush.kind = "RadialGradientBrush" ->
            LET g == addRadialGradient(brush)
            IN  Paint(<<" fill=\"url(#", g.id, ")\"">>, g.defs, g.counter)
      [] brush.kind = "SweepGradientBrush" ->
            IF Len(brush.Stops) > 0
            THEN Paint(<<" fill=\"">> \o colorToCSS(brush.Stops[1].Color) \o <<"\"">>,
                       <<>>, idCounter)
            ELSE Paint(<<" fill=\"black\"">>, <<>>, idCounter)
      [] OTHER -> Paint(<<" fill=\"black\"">>, <<>>, idCounter)

\* strings.Join of the formatted dash values with " "
RECURSIVE joinDashes(_)
joinDashes(dash) ==
    IF Len(dash) = 0 THEN <<>>
    ELSE IF Len(dash) = 1 THEN <<FmtG(dash[1])>>
    ELSE <<FmtG(dash[1]), " ">> \o joinDashes(Tail(dash))

\* The width, cap, join and dash attributes of writeStroke.
strokeStyle(stroke) ==
    <<" stroke-width=\"", FmtG(stroke.Width), "\"">>
    \o (CASE stroke.Cap = "LineCapRound" -> <<" stroke-linecap=\"round\"">>
          [] stroke.Cap = "LineCapSquare" -> <<" stroke-linecap=\"square\"">>
          [] OTHER -> <<" stroke-linecap=\"butt\"">>)
    \o (CASE stroke.Join = "LineJoinRound" -> <<" stroke-linejoin=\"round\"">>
          [] stroke.Join = "LineJoinBevel" -> <<" stroke-linejoin=\"bevel\"">>
          [] OTHER -> <<" stroke-linejoin=\"miter\"">>
                      \o (IF stroke.MiterLimit > 0
                          THEN <<" stroke-miterlimit=\"", FmtG(stroke.MiterLimit), "\"">>
                          ELSE <<>>))
    \o (IF Len(stroke.DashPattern) > 0
        THEN <<" stroke-dasharray=\"">> \o joinDashes(stroke.DashPattern) \o <<"\"">>
             \o (IF stroke.DashOffset # 0
                 THEN <<" stroke-dashoffset=\"", FmtG(stroke.DashOffset), "\"">>
                 ELSE <<>>)
        ELSE <<>>)

\* strokePaint that falls back, as writeFill does, to the first stop's colour
\* of a sweep gradient.
strokePaintFirstStop(brush) ==
    CASE brush.kind = "SolidBrush" ->
            Paint(<<" stroke=\"">> \o colorToCSS(brush.Color) \o <<"\"">>
                  \o (IF brush.Color.A < 100
                      THEN <<" stroke-opacity=\"", FmtGFrac(brush.Color.A), "\"">>
                      ELSE <<>>),
                  <<>>, idCounter)
      [] brush.kind = "LinearGradientBrush" ->
            LET g == addLinearGradient(brush)
            IN  Paint(<<" stroke=\"url(#", g.id, ")\"">>, g.defs, g.counter)
      [] brush.kind = "RadialGradientBrush" ->
            LET g == addRadialGradient(brush)
            IN  Paint(<<" stroke=\"url(#", g.id, ")\"">>, g.defs, g.counter)
      [] brush.kind = "SweepGradientBrush" /\ Len(brush.Stops) > 0 ->
            Paint(<<" stroke=\"">> \o colorToCSS(brush.Stops[1].Color) \o <<"\"">>,
                  <<>>, idCounter)
      [] OTHER -> Paint(<<" stroke=\"black\"">>, <<>>, idCounter)

\* The stroke colour of writeStroke.
strokePaint(brush) ==
    CASE brush.kind = "SolidBrush" ->
            Paint(<<" stroke=\"">> \o colorToCSS(brush.Color) \o <<"\"">>
                  \o (IF brush.Color.A < 100
                      THEN <<" stroke-opacity=\"", FmtGFrac(brush.Color.A), "\"">>
                      ELSE <<>>),
                  <<>>, idCounter)
      [] brush.kind = "LinearGradientBrush" ->
            LET g == addLinearGradient(brush)
            IN  Paint(<<" stroke=\"url(#", g.id, ")\"">>, g.defs, g.counter)
      [] brush.kind = "RadialGradientBrush" ->
            LET g == addRadialGradient(brush)
            IN  Paint(<<" stroke=\"url(#", g.id, ")\"">>, g.defs, g.counter)
      [] OTHER -> Paint(<<" stroke=\"black\"">>, <<>>, idCounter)

writeStroke(brush, stroke) ==
    LET p == strokePaint(brush)
    IN  Paint(p.attrs \o strokeStyle(stroke), p.defs, p.counter)

(***************************************************************************)
(* Drawing calls.                                                          *)
(***************************************************************************)
FillPath(path, brush, rule) ==
    IF path.nil
    THEN UNCHANGED backend
    ELSE EmitPaint(<<"<path">> \o writeTransform \o writeClip
                   \o <<" d=\"">> \o pathToD(path) \o <<"\"">>,
                   writeFill(brush),
                   (IF rule = "FillRuleEvenOdd" THEN <<" fill-rule=\"evenodd\"">> ELSE <<>>)
                   \o <<" stroke=\"none\"", "/>">>)

StrokePath(path, brush, stroke) ==
    IF path.nil
    THEN UNCHANGED backend
    ELSE EmitPaint(<<"<path">> \o writeTransform \o writeClip
                   \o <<" d=\"">> \o pathToD(path) \o <<"\"">>
                   \o <<" fill=\"none\"">>,
                   writeStroke(brush, stroke),
                   <<"/>">>)

FillRect(rect, brush) ==
    EmitPaint(<<"<rect">> \o writeTransform \o writeClip
              \o <<" x=\"", FmtG(rect.MinX), "\" y=\"", FmtG(rect.MinY),
                   "\" width=\"", FmtG(RectWidth(rect)),
                   "\" height=\"", FmtG(RectHeight(rect)), "\"">>,
              writeFill(brush),
              <<" stroke=\"none\"", "/>">>)

\* An image.Image is nil or a picture; png.Encode fails on it or yields
\* bytes, held here by their base64 text.
NilImage == [nil |-> TRUE, encodes |-> FALSE, base64 |-> ""]

Image(ok, b64) == [nil |-> FALSE, encodes |-> ok, base64 |-> b64]

\* opts.Alpha in hundredths
DrawImage(img, src, dst, alpha) ==
    IF img.nil \/ ~img.encodes
    THEN UNCHANGED backend
    ELSE Emit(<<"<image">> \o writeTransform \o writeClip
              \o <<" x=\"", FmtG(dst.MinX), "\" y=\"", FmtG(dst.MinY),
                   "\" width=\"", FmtG(RectWidth(dst)),
                   "\" height=\"", FmtG(RectHeight(dst)), "\"">>
              \o <<" href=\"", "data:image/png;base64," \o img.base64, "\"">>
              \o (IF alpha < 100 THEN <<" opacity=\"", FmtGFrac(alpha), "\"">> ELSE <<>>)
              \o <<" preserveAspectRatio=\"none\"", "/>">>)

\* A text.Face is nil or yields Size() and Metrics().LineHeight().
NilFace == [nil |-> TRUE, Size |-> 0, LineHeight |-> 0]

Face(size, lineHeight) == [nil |-> FALSE, Size |-> size, LineHeight |-> lineHeight]

DefaultFontSize == 12

\* fontSize without the fall back to the line height of the face.
fontSizeOrDefault(face) ==
    IF face.nil THEN DefaultFontSize
    ELSE IF face.Size > 0 THEN face.Size
    ELSE DefaultFontSize

fontSize(face) ==
    IF face.nil THEN DefaultFontSize
    ELSE IF face.Size > 0 THEN face.Size
    ELSE IF face.LineHeight > 0 THEN face.LineHeight
    ELSE DefaultFontSize

DrawText(s, x, y, face, brush) ==
    EmitPaint(<<"<text">> \o writeTransform \o writeClip
              \o <<" x=\"", FmtG(x), "\" y=\"", FmtG(y), "\"">>
              \o <<" font-size=\"", FmtG(fontSize(face)), "\"">>,
              writeFill(brush),
              <<">", escapeXML(s), "</text>">>)

(***************************************************************************)
(* Serialization.                                                          *)
(***************************************************************************)
\* The io.Writer handed to WriteTo: its failAt-th Write call fails (0: none
\* does); a failing call accepts half of its bytes if short, none otherwise.
Writer(failAt, short) == [failAt |-> failAt, short |-> short]

\* w.Write(p) as the k-th call on w: the count and the error it returns.
Write(w, k, p) ==
    IF k = w.failAt
    THEN [n |-> IF w.short THEN ByteLen(p) \div 2 ELSE 0, err |-> "EIO"]
    ELSE [n |-> ByteLen(p), err |-> "nil"]

header ==
    <<"<?xml version=\"1.0\" encoding=\"UTF-8\"?>\n<svg xmlns=\"http://www.w3.org/2000/svg\" xmlns:xlink=\"http://www.w3.org/1999/xlink\" width=\"",
      FmtD(width), "\" height=\"", FmtD(height), "\" viewBox=\"0 0 ", FmtD(width), " ",
      FmtD(height), "\">\n">>

footer == <<"\n</svg>\n">>

\* slices with the definitions block written whether or not there are
\* definitions.
slicesAlwaysDefs ==
    <<header>>
    \o <<<<"<defs>">>, defs, <<"</defs>\n">>>>
    \o <<builder>>
    \o [i \in 1..groupDepth |-> <<"</g>">>]
    \o <<footer>>

\* The byte slices WriteTo hands to w.Write, in order, if no call fails.
slices ==
    <<header>>
    \o (IF String(defs) # "" THEN <<<<"<defs>">>, defs, <<"</defs>\n">>>> ELSE <<>>)
    \o <<builder>>
    \o [i \in 1..groupDepth |-> <<"</g>">>]
    \o <<footer>>

\* writeFrom that returns on an error before adding the call's count.
RECURSIVE writeFromDropsCount(_, _, _, _, _)
writeFromDropsCount(w, ps, k, total, written) ==
    IF k > Len(ps)
    THEN [sink |-> written, n |-> total, err |-> "nil"]
    ELSE LET r == Write(w, k, ps[k])
             s == Append(written, [p |-> ps[k], n |-> r.n, err |-> r.err])
         IN  IF r.err # "nil"
             THEN [sink |-> s, n |-> total, err |-> r.err]
             ELSE writeFromDropsCount(w, ps, k + 1, total + r.n, s)

\* The Write calls of WriteTo from the k-th on: total is added to after every
\* call, and the first error ends the function.
RECURSIVE writeFrom(_, _, _, _, _)
writeFrom(w, ps, k, total, written) ==
    IF k > Len(ps)
    THEN [sink |-> written, n |-> total, err |-> "nil"]
    ELSE LET r == Write(w, k, ps[k])
             t == total + r.n
             s == Append(written, [p |-> ps[k], n |-> r.n, err |-> r.err])
         IN  IF r.err # "nil"
             THEN [sink |-> s, n |-> t, err |-> r.err]
             ELSE writeFrom(w, ps, k + 1, t, s)

\* WriteTo that counts the groups it closes out of groupDepth.
WriteToClosesGroups(w) ==
    LET r == writeFrom(w, slices, 1, 0, <<>>)
    IN  /\ sink' = r.sink
        /\ ret' = [n |-> r.n, err |-> r.err]
        /\ groupDepth' = IF r.err = "nil" THEN 0 ELSE groupDepth
        /\ UNCHANGED <<width, height, builder, defs, idCounter, stateStack,
                       currentTransform, currentClipID>>

WriteTo(w) ==
    LET r == writeFrom(w, slices, 1, 0, <<>>)
    IN  /\ sink' = r.sink
        /\ ret' = [n |-> r.n, err |-> r.err]
        /\ UNCHANGED backend

(***************************************************************************)
(* The calls a client makes, with the inputs the model draws them from.    *)
(***************************************************************************)
Dims == {<<100, 50>>}

Transforms == {Identity, Translate1}

Path1 == Path(<<MoveTo(10, 20), LineTo(30, 40), Close>>)

Paths == {NilPath, Path1}

Rules == {"FillRuleNonZero", "FillRuleEvenOdd"}

Stops1 == <<Stop(0, Red), Stop(100, HalfBlue)>>

Linear1 == LinearGradientBrush(0, 0, 100, 0, Stops1, "ExtendRepeat")

Radial1 == RadialGradientBrush(50, 50, 50, 50, 40, Stops1, "ExtendPad")

Sweep1 == SweepGradientBrush(<<Stop(0, Green), Stop(100, Red)>>)

Stroke1 == Stroke(2, "LineCapRound", "LineJoinMiter", 4, <<5, 3>>, 1)

Rect1 == Rect(10, 20, 110, 70)

Image1 == Image(TRUE, "iVBORw0KGgo=")

BadImage == Image(FALSE, "")

\* The result a call without a WriteTo leaves: nothing written, no error.
NoResult ==
    /\ sink' = <<>>
    /\ ret' = [n |-> 0, err |-> "nil"]

\* The pre-state had open scopes, an active clip, a transform, IDs and markup.
Dirty ==
    /\ stateStack # <<>>
    /\ currentClipID # ""
    /\ ~IsIdentity(currentTransform)
    /\ idCounter > 0
    /\ builder # <<>>
    /\ defs # <<>>

Called(op) ==
    call' = [op |-> op, depth |-> Len(stateStack), again |-> op = "WriteTo" /\ call.op = op,
             dirty |-> op = "Begin" /\ Dirty]

\* An appending operation: the document has room for it.
Appending ==
    /\ ops < MaxOps
    /\ ops' = ops + 1

CallBegin ==
    \E d \in Dims :
        /\ Begin(d[1], d[2])
        /\ Called("Begin") /\ NoResult
        /\ savedAt' = <<>>
        /\ ops' = 0

CallEnd ==
    /\ End
    /\ Called("End") /\ NoResult
    /\ UNCHANGED <<savedAt, ops>>

CallSave ==
    /\ Appending
    /\ Save
    /\ Called("Save") /\ NoResult
    /\ savedAt' = Append(savedAt, backendState(currentTransform, currentClipID))

CallRestore ==
    /\ Restore
    /\ Called("Restore") /\ NoResult
    /\ savedAt' = IF savedAt = <<>> THEN <<>> ELSE SubSeq(savedAt, 1, Len(savedAt) - 1)
    /\ UNCHANGED ops

CallSetTransform ==
    \E m \in Transforms :
        /\ SetTransform(m)
        /\ Called("SetTransform") /\ NoResult
        /\ UNCHANGED <<savedAt, ops>>

CallSetClip ==
    \E path \in Paths, rule \in Rules :
        /\ Appending
        /\ SetClip(path, rule)
        /\ Called("SetClip") /\ NoResult
        /\ UNCHANGED savedAt

CallClearClip ==
    /\ ClearClip
    /\ Called("ClearClip") /\ NoResult
    /\ UNCHANGED <<savedAt, ops>>

CallFillPath ==
    \E path \in Paths :
        /\ Appending
        /\ FillPath(path, Linear1, "FillRuleEvenOdd")
        /\ Called("FillPath") /\ NoResult
        /\ UNCHANGED savedAt

CallStrokePath ==
    /\ Appending
    /\ StrokePath(Path1, Radial1, Stroke1)
    /\ Called("StrokePath") /\ NoResult
    /\ UNCHANGED savedAt

CallFillRect ==
    /\ Appending
    /\ FillRect(Rect1, SolidBrush(HalfBlue))
    /\ Called("FillRect") /\ NoResult
    /\ UNCHANGED savedAt

CallDrawImage ==
    \E img \in {NilImage, BadImage, Image1} :
        /\ Appending
        /\ DrawImage(img, Rect1, Rect1, 50)
        /\ Called("DrawImage") /\ NoResult
        /\ UNCHANGED savedAt

CallDrawText ==
    /\ Appending
    /\ DrawText("<g>&", 10, 20, NilFace, Sweep1)
    /\ Called("DrawText") /\ NoResult
    /\ UNCHANGED savedAt

\* WriteTo to a writer none of whose calls fails.
CallWriteTo ==
    /\ WriteTo(Writer(0, FALSE))
    /\ Called("WriteTo")
    /\ UNCHANGED <<savedAt, ops>>

\* WriteTo to a writer one of whose calls fails.
CallWriteToFailing ==
    \E failAt \in 1..Len(slices), short \in BOOLEAN :
        /\ WriteTo(Writer(failAt, short))
        /\ Called("WriteTo")
        /\ UNCHANGED <<savedAt, ops>>

\* NewBackend()
Init ==
    /\ width = 0
    /\ height = 0
    /\ builder = <<>>
    /\ defs = <<>>
    /\ groupDepth = 0
    /\ idCounter = 0
    /\ stateStack = <<>>
    /\ currentTransform = ZeroMatrix
    /\ currentClipID = ""
    /\ sink = <<>>
    /\ ret = [n |-> 0, err |-> "nil"]
    /\ call = [op |-> "NewBackend", depth |-> 0, again |-> FALSE, dirty |-> FALSE]
    /\ savedAt = <<>>
    /\ ops = 0

Next ==
    \/ CallBegin
    \/ CallEnd
    \/ CallSave
    \/ CallRestore
    \/ CallSetTransform
    \/ CallSetClip
    \/ CallClearClip
    \/ CallFillPath
    \/ CallStrokePath
    \/ CallFillRect
    \/ CallDrawImage
    \/ CallDrawText
    \/ CallWriteTo

Spec == Init /\ [][Next]_vars

\* The calls of one document serialized to failing writers.
NextSink ==
    \/ CallBegin
    \/ CallSave
    \/ CallRestore
    \/ CallSetClip
    \/ CallFillRect
    \/ CallWriteToFailing

SpecSink == Init /\ [][NextSink]_vars

(***************************************************************************)
(* Properties.                                                             *)
(***************************************************************************)
\* The number of pieces of buf equal to piece.
Count(buf, piece) == Cardinality({i \in 1..Len(buf) : buf[i] = piece})

\* The number of pieces of buf[1..k] equal to piece.
CountUpTo(buf, k, piece) == Cardinality({i \in 1..k : buf[i] = piece})

\* All bytes handed to the writer, in order.
RECURSIVE Flat(_)
Flat(written) == IF written = <<>> THEN <<>> ELSE Head(written).p \o Flat(Tail(written))

IsPrefix(a, b) == Len(a) <= Len(b) /\ SubSeq(b, 1, Len(a)) = a

Succeeded == call.op = "WriteTo" /\ ret.err = "nil"

Failed == call.op = "WriteTo" /\ ret.err # "nil"

\* C1: a serialized document has as many "</g>" as the content buffer has
\* "<g>", and no prefix of it has more "</g>" than "<g>", however many Saves
\* are open.
C1_BalancedGroups ==
    Succeeded =>
        LET out == Flat(sink)
        IN  /\ Count(out, "</g>") = Count(builder, "<g>")
            \* the balance of a prefix falls only at a "</g>"
            /\ \A k \in 1..Len(out) :
                   out[k] = "</g>" =>
                       CountUpTo(out, k, "</g>") <= CountUpTo(out, k, "<g>")

\* Two Saves are open when the document is serialized, and both are closed.
C1_Witness ==
    /\ Succeeded
    /\ groupDepth = 2
    /\ Count(builder, "</g>") = 0
    /\ Count(Flat(sink), "</g>") = 2

\* C2: after every call groupDepth is the length of the state stack, and is
\* not negative.
C2_DepthIsStackLength == groupDepth = Len(stateStack) /\ groupDepth >= 0

\* A Restore has closed the inner of two open scopes.
C2_Witness == call.op = "Restore" /\ call.depth = 2 /\ groupDepth = 1

\* C3: a Restore on an empty state stack changes nothing of the backend.
C3_RestoreOnEmptyIsNoOp ==
    [][(call'.op = "Restore" /\ call'.depth = 0) => UNCHANGED backend]_vars

\* A Restore has met an empty stack in a document with markup, a clip and a
\* transform.
C3_Witness ==
    /\ call.op = "Restore"
    /\ call.depth = 0
    /\ builder # <<>>
    /\ currentClipID # ""
    /\ currentTransform = Translate1

\* C4: the state stack holds, unaltered, the transform and clip that were
\* current at each open Save, and a Restore makes the last of them current.
C4_RestoreIsLIFO ==
    /\ [](stateStack = savedAt)
    /\ [][(call'.op = "Restore" /\ call'.depth > 0) =>
            /\ currentTransform' = savedAt[Len(savedAt)].transform
            /\ currentClipID' = savedAt[Len(savedAt)].clipID
            /\ savedAt' = SubSeq(savedAt, 1, Len(savedAt) - 1)]_vars

\* The inner of two Saves, taken under a transform the outer one did not
\* have, has been restored.
C4_Witness ==
    /\ call.op = "Restore"
    /\ call.depth = 2
    /\ currentTransform = Translate1
    /\ stateStack = <<backendState(Identity, "")>>

RefOpeners == {" clip-path=\"url(#", " fill=\"url(#", " stroke=\"url(#"}

DefOpeners == {"<clipPath id=\"", "<linearGradient id=\"", "<radialGradient id=\""}

\* The definitions of the definitions buffer that carry id.
DefsOf(id) == {j \in 1..(Len(defs) - 1) : defs[j] \in DefOpeners /\ defs[j + 1] = id}

\* C5: every url(#id) of the content buffer, the current clip reference and
\* every saved one name an id with exactly one definition, and no id has two.
C5_ReferenceIntegrity ==
    /\ \A i \in 1..(Len(builder) - 1) :
           builder[i] \in RefOpeners => Cardinality(DefsOf(builder[i + 1])) = 1
    /\ \A j \in 1..(Len(defs) - 1) :
           defs[j] \in DefOpeners => Cardinality(DefsOf(defs[j + 1])) = 1
    /\ currentClipID # "" => Cardinality(DefsOf(currentClipID)) = 1
    /\ \A i \in 1..Len(stateStack) :
           stateStack[i].clipID # "" => Cardinality(DefsOf(stateStack[i].clipID)) = 1

\* An element refers to a clip and to a gradient.
C5_Witness ==
    /\ \E i \in 1..(Len(builder) - 1) :
           builder[i] = " clip-path=\"url(#" /\ builder[i + 1] = "clip1"
    /\ \E i \in 1..(Len(builder) - 1) :
           builder[i] = " fill=\"url(#" /\ builder[i + 1] = "lg2"

\* n closing group markers
RECURSIVE Closes(_)
Closes(n) == IF n <= 0 THEN "" ELSE "</g>" \o Closes(n - 1)

\* The document WriteTo is to produce.
Document ==
    "<?xml version=\"1.0\" encoding=\"UTF-8\"?>\n"
    \o "<svg xmlns=\"http://www.w3.org/2000/svg\" xmlns:xlink=\"http://www.w3.org/1999/xlink\""
    \o " width=\"" \o ToString(width) \o "\" height=\"" \o ToString(height) \o "\""
    \o " viewBox=\"0 0 " \o ToString(width) \o " " \o ToString(height) \o "\">\n"
    \o (IF defs # <<>> THEN "<defs>" \o String(defs) \o "</defs>\n" ELSE "")
    \o String(builder)
    \o Closes(groupDepth)
    \o "\n</svg>\n"

\* C6: WriteTo to a writer that does not fail writes the header, the
\* definitions block if there are definitions, the content, groupDepth
\* closing markers and the footer, and returns the number of bytes written.
C6_WriteToOutput ==
    Succeeded =>
        /\ String(Flat(sink)) = Document
        /\ ret.n = Len(Document)

\* A document with definitions, content and an open scope has been written.
C6_Witness ==
    /\ Succeeded
    /\ defs # <<>>
    /\ groupDepth = 1
    /\ Len(builder) > 1

\* C7: WriteTo changes nothing of the backend, and a WriteTo right after a
\* WriteTo writes and returns the same.
C7_WriteToDoesNotMutate ==
    [][call'.op = "WriteTo" =>
          /\ UNCHANGED backend
          /\ (Succeeded /\ ret'.err = "nil") => (sink' = sink /\ ret' = ret)]_vars

\* A document with an open scope has been written twice in a row.
C7_Witness == Succeeded /\ call.again /\ groupDepth > 0

\* The counts the writer returned, summed.
RECURSIVE SumN(_)
SumN(written) == IF written = <<>> THEN 0 ELSE Head(written).n + SumN(Tail(written))

\* C8: when a Write fails, WriteTo returns its error and the sum of the
\* counts of the Write calls up to and with the failing one, which is the
\* last call it makes, and changes nothing of the backend.
C8_WriteToFailure ==
    /\ [](Failed =>
            /\ sink # <<>>
            /\ sink[Len(sink)].err = ret.err
            /\ \A i \in 1..(Len(sink) - 1) : sink[i].err = "nil"
            /\ ret.n = SumN(sink))
    /\ [][call'.op = "WriteTo" => UNCHANGED backend]_vars

\* The writer has failed on a later Write, having taken some of its bytes,
\* with further slices still to be written.
C8_Witness ==
    /\ Failed
    /\ Len(sink) >= 2
    /\ sink[Len(sink)].n > 0
    /\ groupDepth > 0
    /\ Len(sink) < Len(slices)

\* C9: Begin leaves the state of a new backend after Begin, and a WriteTo
\* right after it writes an empty document.
C9_BeginResets ==
    /\ [](call.op = "Begin" =>
            /\ builder = <<>> /\ defs = <<>>
            /\ groupDepth = 0 /\ stateStack = <<>>
            /\ idCounter = 0
            /\ currentTransform = Identity /\ currentClipID = ""
            /\ <<width, height>> \in Dims)
    /\ [][(call.op = "Begin" /\ call'.op = "WriteTo" /\ ret'.err = "nil") =>
            String(Flat(sink')) =
                "<?xml version=\"1.0\" encoding=\"UTF-8\"?>\n"
                \o "<svg xmlns=\"http://www.w3.org/2000/svg\" xmlns:xlink=\"http://www.w3.org/1999/xlink\""
                \o " width=\"" \o ToString(width) \o "\" height=\"" \o ToString(height) \o "\""
                \o " viewBox=\"0 0 " \o ToString(width) \o " " \o ToString(height) \o "\">\n"
                \o "\n</svg>\n"]_vars

\* Begin has been called on a document with open scopes, a clip, a
\* transform, IDs and markup.
C9_Witness == call.op = "Begin" /\ call.dirty

\* C10: but for Begin, every call leaves the content buffer and the
\* definitions buffer with what they held as a prefix.
C10_AppendOnly ==
    [][call'.op # "Begin" => IsPrefix(builder, builder') /\ IsPrefix(defs, defs')]_vars

\* A clip has been cleared and a scope restored, and their markup is there.
C10_Witness ==
    /\ call.op = "ClearClip"
    /\ defs # <<>>
    /\ Count(builder, "</g>") = 1

(***************************************************************************)
(* Drawing calls with their arguments on record.  The calls of Spec draw   *)
(* with one brush each; the calls below draw with every kind of brush and  *)
(* keep the arguments in call.args for the properties to read.             *)
(***************************************************************************)
\* The brushes of backend_test.go, by kind, and the values the type switches
\* of writeFill and writeStroke tell apart.
LinearPad == LinearGradientBrush(0, 0, 100, 0, Stops1, "ExtendPad")

\* Start and end coincide: length is 0.
LinearZero == LinearGradientBrush(5, 5, 5, 5, Stops1, "ExtendReflect")

RadialReflect == RadialGradientBrush(50, 50, 50, 50, 40, Stops1, "ExtendReflect")

\* A sweep gradient whose first stop is translucent.
SweepHalf == SweepGradientBrush(<<Stop(0, HalfBlue), Stop(100, Red)>>)

SweepEmpty == SweepGradientBrush(<<>>)

Brushes ==
    {SolidBrush(Red), SolidBrush(HalfBlue), Linear1, LinearPad, LinearZero, Radial1,
     RadialReflect, Sweep1, SweepHalf, SweepEmpty, NilBrush}

FillBrushes == {SolidBrush(Red), Sweep1, SweepHalf, SweepEmpty}

\* recording.DefaultStroke() with width 1: butt caps, miter joins, no dashes.
Stroke2 == Stroke(1, "LineCapButt", "LineJoinMiter", 4, <<>>, 0)

Strokes == {Stroke1, Stroke2}

Face1 == Face(24, 30)

NoArgs ==
    [path |-> NilPath, rule |-> "", brush |-> NilBrush, stroke |-> Stroke2,
     rect |-> Rect1, s |-> "", face |-> NilFace]

Did(op, args) ==
    call' = [op |-> op, depth |-> Len(stateStack), again |-> FALSE, dirty |-> FALSE,
             args |-> args]

DoSetClip ==
    \E path \in Paths, rule \in Rules :
        /\ Appending
        /\ SetClip(path, rule)
        /\ Did("SetClip", [NoArgs EXCEPT !.path = path, !.rule = rule]) /\ NoResult
        /\ UNCHANGED savedAt

DoFillPath ==
    \E brush \in Brushes :
        /\ Appending
        /\ FillPath(Path1, brush, "FillRuleNonZero")
        /\ Did("FillPath", [NoArgs EXCEPT !.path = Path1, !.rule = "FillRuleNonZero",
                                          !.brush = brush])
        /\ NoResult
        /\ UNCHANGED savedAt

DoStrokePath ==
    \E brush \in Brushes, stroke \in Strokes :
        /\ stroke = Stroke2 => brush \in {Sweep1, NilBrush}
        /\ Appending
        /\ StrokePath(Path1, brush, stroke)
        /\ Did("StrokePath", [NoArgs EXCEPT !.path = Path1, !.brush = brush,
                                            !.stroke = stroke])
        /\ NoResult
        /\ UNCHANGED savedAt

DoFillRect ==
    \E brush \in FillBrushes :
        /\ Appending
        /\ FillRect(Rect1, brush)
        /\ Did("FillRect", [NoArgs EXCEPT !.rect = Rect1, !.brush = brush]) /\ NoResult
        /\ UNCHANGED savedAt

DoDrawText ==
    \E brush \in FillBrushes :
        /\ Appending
        /\ DrawText("Hi", 10, 20, Face1, brush)
        /\ Did("DrawText", [NoArgs EXCEPT !.s = "Hi", !.face = Face1, !.brush = brush])
        /\ NoResult
        /\ UNCHANGED savedAt

NextDraw ==
    \/ CallBegin
    \/ CallSave
    \/ DoSetClip
    \/ DoFillPath
    \/ DoStrokePath
    \/ DoFillRect
    \/ DoDrawText

SpecDraw == Init /\ [][NextDraw]_vars

\* What the step appended to the content buffer and to the definitions.
NewContent == SubSeq(builder', Len(builder) + 1, Len(builder'))

NewDefs == SubSeq(defs', Len(defs) + 1, Len(defs'))

\* The step is a call of op that drew with a brush of the given kind.
Drew(ops_, kind) == call'.op \in ops_ /\ call'.args.brush.kind = kind

\* The step is what the same call would do with brush in place of its brush.
SameAsWith(brush) ==
    CASE call'.op = "FillPath" -> FillPath(call'.args.path, brush, call'.args.rule)
      [] call'.op = "FillRect" -> FillRect(call'.args.rect, brush)
      [] call'.op = "DrawText" -> DrawText(call'.args.s, 10, 20, call'.args.face, brush)
      [] OTHER -> FALSE

\* C11: a fill (FillPath, FillRect, DrawText) with a sweep-gradient brush
\* with at least one stop appends exactly what the same fill with a solid
\* brush of the first stop's colour appends, and allocates no definition
\* and no ID; with zero stops it appends an opaque black fill.
C11_SweepFillsAsFirstStop ==
    [][Drew({"FillPath", "FillRect", "DrawText"}, "SweepGradientBrush") =>
          LET br == call'.args.brush
          IN  /\ UNCHANGED <<defs, idCounter>>
              /\ IF Len(br.Stops) > 0
                 THEN SameAsWith(SolidBrush(br.Stops[1].Color))
                 ELSE /\ Count(NewContent, " fill=\"black\"") = 1
                      /\ Count(NewContent, " fill=\"") = 0
                      /\ Count(NewContent, " fill-opacity=\"") = 0]_vars

(***************************************************************************)
(* The path-data encoder on every short path.  InitPath draws the path     *)
(* into call.args; the actions hand it to pathToD and to the three calls   *)
(* that encode a path.                                                     *)
(***************************************************************************)
MaxPathLen == 2

\* A path element of a type none of the five cases of pathToD's switch names.
ArcTo(x, y) == [kind |-> "ArcTo", X |-> x, Y |-> y]

\* The elements of TestPathToD, and one of another type.
Segments ==
    {MoveTo(10, 20), LineTo(30, 40), QuadTo(50, 60, 70, 80),
     CubicTo(90, 100, 110, 120, 130, 140), Close, ArcTo(150, 160)}

SegmentKinds == {"MoveTo", "LineTo", "QuadTo", "CubicTo", "Close"}

PathInputs ==
    {NilPath} \cup {Path(elems) : elems \in UNION {[1..n -> Segments] : n \in 0..MaxPathLen}}

InitPath ==
    /\ width = 0
    /\ height = 0
    /\ builder = <<>>
    /\ defs = <<>>
    /\ groupDepth = 0
    /\ idCounter = 0
    /\ stateStack = <<>>
    /\ currentTransform = ZeroMatrix
    /\ currentClipID = ""
    /\ sink = <<>>
    /\ ret = [n |-> 0, err |-> "nil", d |-> ""]
    /\ \E path \in PathInputs :
           call = [op |-> "NewBackend", depth |-> 0, again |-> FALSE, dirty |-> FALSE,
                   args |-> [NoArgs EXCEPT !.path = path]]
    /\ savedAt = <<>>
    /\ ops = 0

\* d := b.pathToD(path), on a path that is not nil.
OnPathToD ==
    /\ ~call.args.path.nil
    /\ Appending
    /\ UNCHANGED backend
    /\ ret' = [n |-> 0, err |-> "nil", d |-> String(pathToD(call.args.path))]
    /\ Did("pathToD", call.args)
    /\ UNCHANGED <<sink, savedAt>>

\* A call that encodes the path returns nothing: its signature has no result.
OnFillPath ==
    \E rule \in Rules :
        /\ Appending
        /\ FillPath(call.args.path, SolidBrush(Red), rule)
        /\ Did("FillPath", [call.args EXCEPT !.brush = SolidBrush(Red), !.rule = rule])
        /\ sink' = <<>>
        /\ ret' = [n |-> 0, err |-> "nil", d |-> ""]
        /\ UNCHANGED savedAt

OnStrokePath ==
    /\ Appending
    /\ StrokePath(call.args.path, SolidBrush(Red), Stroke2)
    /\ Did("StrokePath", [call.args EXCEPT !.brush = SolidBrush(Red), !.stroke = Stroke2])
    /\ sink' = <<>>
    /\ ret' = [n |-> 0, err |-> "nil", d |-> ""]
    /\ UNCHANGED savedAt

OnSetClip ==
    \E rule \in Rules :
        /\ Appending
        /\ SetClip(call.args.path, rule)
        /\ Did("SetClip", [call.args EXCEPT !.rule = rule])
        /\ sink' = <<>>
        /\ ret' = [n |-> 0, err |-> "nil", d |-> ""]
        /\ UNCHANGED savedAt

NextPath ==
    \/ OnPathToD
    \/ OnFillPath
    \/ OnStrokePath
    \/ OnSetClip

SpecPath == InitPath /\ [][NextPath]_vars

\* The path has an element outside the five kinds.
HasUnsupported(path) ==
    \E i \in 1..Len(path.Elements) : path.Elements[i].kind \notin SegmentKinds

\* C12: encoding a path with a segment outside the five kinds fails with
\* UnsupportedSegment, which reaches the caller of FillPath, StrokePath and
\* SetClip; the segment is not silently dropped.
C12_UnsupportedSegmentFails ==
    (call.op \in {"pathToD", "FillPath", "StrokePath", "SetClip"}
     /\ ~call.args.path.nil /\ HasUnsupported(call.args.path))
        => ret.err = "UnsupportedSegment"

\* The command the path-data format writes for one segment of the five kinds.
CommandText(e) ==
    CASE e.kind = "MoveTo" -> "M" \o ToString(e.X) \o " " \o ToString(e.Y)
      [] e.kind = "LineTo" -> "L" \o ToString(e.X) \o " " \o ToString(e.Y)
      [] e.kind = "QuadTo" ->
            "Q" \o ToString(e.CX) \o " " \o ToString(e.CY) \o " "
                \o ToString(e.X) \o " " \o ToString(e.Y)
      [] e.kind = "CubicTo" ->
            "C" \o ToString(e.C1X) \o " " \o ToString(e.C1Y) \o " "
                \o ToString(e.C2X) \o " " \o ToString(e.C2Y) \o " "
                \o ToString(e.X) \o " " \o ToString(e.Y)
      [] e.kind = "Close" -> "Z"

\* The commands of the segments in input order, nothing between them.
RECURSIVE PathText(_)
PathText(elems) ==
    IF elems = <<>> THEN "" ELSE CommandText(Head(elems)) \o PathText(Tail(elems))

\* C13: pathToD yields the commands of the path's segments in input order,
\* concatenated with no separator (M x y, L x y, Q cx cy x y,
\* C c1x c1y c2x c2y x y, Z), the empty string for the empty path, and it
\* changes no state of the backend.
C13_PathDataEncoder ==
    /\ []((call.op = "pathToD" /\ ~HasUnsupported(call.args.path))
            => ret.d = PathText(call.args.path.Elements))
    /\ [][call'.op = "pathToD" => UNCHANGED backend]_vars

C13_Witness ==
    /\ call.op = "pathToD"
    /\ Len(call.args.path.Elements) = 2
    /\ call.args.path.Elements[1].kind = "QuadTo"
    /\ call.args.path.Elements[2].kind = "Close"
    /\ ret.d = "Q50 60 70 80Z"

(***************************************************************************)
(* DrawText on every short text and every kind of font face.  InitText     *)
(* draws the text and the face into call.args.                             *)
(***************************************************************************)
MaxTextLen == 2

\* The five characters escapeXML replaces, and two it leaves alone.
Chars == {"&", "<", ">", "\"", "'", ";", "a"}

\* Every text of up to n characters.
RECURSIVE TextsUpTo(_)
TextsUpTo(n) ==
    IF n = 0 THEN {""}
    ELSE LET shorter == TextsUpTo(n - 1)
         IN  shorter \cup {t \o c : t \in shorter, c \in Chars}

\* The texts of TestBackendTextXMLEscape and TestEscapeXML that hold
\* something that reads as an entity already.
EscapedTexts == {"&amp;", "a &lt; b", "<script>alert('xss')</script>"}

Texts == TextsUpTo(MaxTextLen) \cup EscapedTexts

\* No face; a face with a size; faces without a size, with and without a
\* line height.
Faces == {NilFace, Face1, Face(0, 30), Face(0, 0), Face(-1, 0)}

InitText ==
    /\ width = 0
    /\ height = 0
    /\ builder = <<>>
    /\ defs = <<>>
    /\ groupDepth = 0
    /\ idCounter = 0
    /\ stateStack = <<>>
    /\ currentTransform = ZeroMatrix
    /\ currentClipID = ""
    /\ sink = <<>>
    /\ ret = [n |-> 0, err |-> "nil"]
    /\ \E s \in Texts, face \in Faces :
           call = [op |-> "NewBackend", depth |-> 0, again |-> FALSE, dirty |-> FALSE,
                   args |-> [NoArgs EXCEPT !.s = s, !.face = face]]
    /\ savedAt = <<>>
    /\ ops = 0

OnDrawText ==
    /\ Appending
    /\ DrawText(call.args.s, 10, 20, call.args.face, SolidBrush(Red))
    /\ Did("DrawText", [call.args EXCEPT !.brush = SolidBrush(Red)])
    /\ NoResult
    /\ UNCHANGED savedAt

\* Begin, the text and the face to draw kept on record.
OnBegin ==
    \E d \in Dims :
        /\ Begin(d[1], d[2])
        /\ Did("Begin", call.args) /\ NoResult
        /\ savedAt' = <<>>
        /\ ops' = 0

NextText ==
    \/ OnBegin
    \/ OnDrawText

SpecText == InitText /\ [][NextText]_vars

\* The character data of the text element written last.
CharData == builder[Len(builder) - 1]

Entities == {"&amp;", "&lt;", "&gt;", "&quot;", "&apos;"}

StartsWith(t, e) == Len(t) >= Len(e) /\ SubSeq(t, 1, Len(e)) = e

\* The character an entity stands for.
Decoded(e) ==
    CASE e = "&amp;" -> "&"
      [] e = "&lt;" -> "<"
      [] e = "&gt;" -> ">"
      [] e = "&quot;" -> "\""
      [] e = "&apos;" -> "'"

\* Character data with every entity replaced by its character, left to right.
RECURSIVE Decode(_)
Decode(t) ==
    IF Len(t) = 0 THEN ""
    ELSE IF \E e \in Entities : StartsWith(t, e)
    THEN LET e == CHOOSE e \in Entities : StartsWith(t, e)
         IN  Decoded(e) \o Decode(SubSeq(t, Len(e) + 1, Len(t)))
    ELSE SubSeq(t, 1, 1) \o Decode(SubSeq(t, 2, Len(t)))

\* C14: the character data DrawText writes between <text ...> and </text>
\* holds no raw <, >, " or ', every & in it begins one of the five
\* entities, and decoding the entities yields the input text exactly.
C14_TextEscaping ==
    call.op = "DrawText" =>
        /\ builder[Len(builder)] = "</text>"
        /\ builder[Len(builder) - 2] = ">"
        /\ \A i \in 1..Len(CharData) :
              /\ SubSeq(CharData, i, i) \notin {"<", ">", "\"", "'"}
              /\ SubSeq(CharData, i, i) = "&" =>
                    \E e \in Entities : StartsWith(SubSeq(CharData, i, Len(CharData)), e)
        /\ Decode(CharData) = call.args.s

C14_Witness ==
    /\ call.op = "DrawText"
    /\ call.args.s = "&amp;"
    /\ CharData = "&amp;amp;"

\* C15: SetClip with a path allocates one new ID, appends exactly one clip
\* definition with that ID to the definitions, marked even-odd iff the rule
\* is even-odd, makes the ID the current clip reference, and leaves the
\* content buffer, the transform, the state stack and groupDepth as they
\* were; SetClip with a nil path changes nothing, the ID counter and the
\* current clip reference included.
C15_SetClipEffect ==
    [][call'.op = "SetClip" =>
          IF call'.args.path.nil
          THEN UNCHANGED backend
          ELSE /\ idCounter' = idCounter + 1
               /\ currentClipID' = "clip" \o ToString(idCounter')
               /\ \A i \in 1..Len(defs) : defs[i] # currentClipID'
               /\ SubSeq(defs', 1, Len(defs)) = defs
               /\ Len(NewDefs) >= 3
               /\ NewDefs[1] = "<clipPath id=\""
               /\ NewDefs[2] = currentClipID'
               /\ NewDefs[Len(NewDefs)] = "/></clipPath>"
               /\ \A o \in DefOpeners :
                     Count(NewDefs, o) = (IF o = "<clipPath id=\"" THEN 1 ELSE 0)
               /\ Count(NewDefs, "/></clipPath>") = 1
               /\ Count(NewDefs, " clip-rule=\"evenodd\"")
                     = (IF call'.args.rule = "FillRuleEvenOdd" THEN 1 ELSE 0)
               /\ UNCHANGED <<width, height, builder, currentTransform, stateStack,
                              groupDepth>>]_vars

\* A clip set inside a saved scope, with the non-zero rule.
C15_Witness ==
    /\ call.op = "SetClip"
    /\ ~call.args.path.nil
    /\ call.args.rule = "FillRuleNonZero"
    /\ currentClipID = "clip1"
    /\ stateStack # <<>>
    /\ Count(defs, "<clipPath id=\"") = 1
    /\ Count(defs, " clip-rule=\"evenodd\"") = 0

DrawOps == {"FillPath", "StrokePath", "FillRect", "DrawImage", "DrawText"}

\* The clip-path attributes in buf all refer to id, and there are n of them.
ClipRefs(buf, id, n) ==
    /\ Count(buf, " clip-path=\"url(#") = n
    /\ \A i \in 1..Len(buf) :
          buf[i] = " clip-path=\"url(#" =>
              i + 2 <= Len(buf) /\ buf[i + 1] = id /\ buf[i + 2] = ")\""

\* C16: ClearClip sets the current clip reference to none and changes
\* nothing else; the reference stays none until a SetClip or a Restore, and
\* an element drawn while it is none carries no clip-path attribute; an
\* element drawn while a clip reference is current carries exactly that
\* reference.
C16_ClearClipEffect ==
    /\ [][call'.op = "ClearClip" =>
            /\ currentClipID' = ""
            /\ UNCHANGED <<width, height, builder, defs, groupDepth, idCounter,
                           stateStack, currentTransform>>]_vars
    /\ [][(currentClipID = "" /\ currentClipID' # "")
            => call'.op \in {"SetClip", "Restore"}]_vars
    /\ [][(call'.op \in DrawOps /\ builder' # builder) =>
            /\ UNCHANGED currentClipID
            /\ IF currentClipID = ""
               THEN ClipRefs(NewContent, "", 0)
               ELSE ClipRefs(NewContent, currentClipID, 1)]_vars

\* An element drawn after SetClip and ClearClip, outside any saved scope.
C16_Witness ==
    /\ call.op \in DrawOps
    /\ currentClipID = ""
    /\ stateStack = <<>>
    /\ Count(defs, "<clipPath id=\"") = 1
    /\ Count(builder, "<g>") = 0
    /\ Len(builder) > 0
    /\ Count(builder, " clip-path=\"url(#") = 0

\* sub occurs in text.
Contains(text, sub) ==
    \E i \in 1..(Len(text) - Len(sub) + 1) : SubSeq(text, i, i + Len(sub) - 1) = sub

\* The opening tag of the element text starts with: up to its first ">".
OpeningTag(text) ==
    LET ends == {i \in 1..Len(text) : SubSeq(text, i, i) = ">"}
    IN  IF ends = {} THEN text
        ELSE SubSeq(text, 1, CHOOSE i \in ends : \A j \in ends : i <= j)

\* The spread value of a gradient brush: "repeat", "reflect", or "" when the
\* mode is the default one or the brush is a linear one of length zero.
SpreadValue(br) ==
    IF br.kind = "LinearGradientBrush" /\ br.StartX = br.EndX /\ br.StartY = br.EndY
    THEN ""
    ELSE CASE br.Extend = "ExtendRepeat" -> "repeat"
           [] br.Extend = "ExtendReflect" -> "reflect"
           [] OTHER -> ""

\* C17: the definition of a radial gradient, or of a linear gradient of
\* non-zero length, with spread mode repeat (reflect) has the attribute
\* spreadMethod="repeat" ("reflect") inside the opening tag of the gradient
\* element; with the default mode, or a linear gradient of length zero, the
\* definition has no spread attribute anywhere.
C17_SpreadInOpeningTag ==
    [][(Drew({"FillPath", "StrokePath"}, "LinearGradientBrush")
        \/ Drew({"FillPath", "StrokePath"}, "RadialGradientBrush")) =>
          LET value == SpreadValue(call'.args.brush)
              text == String(NewDefs)
          IN  IF value = ""
              THEN ~Contains(text, "spreadMethod")
              ELSE Contains(OpeningTag(text), " spreadMethod=\"" \o value \o "\"")]_vars

\* The position of the first piece equal to piece in buf, 0 if there is none.
IndexOf(buf, piece) ==
    LET at == {i \in 1..Len(buf) : buf[i] = piece}
    IN  IF at = {} THEN 0 ELSE CHOOSE i \in at : \A j \in at : i <= j

FontSizeWritten ==
    LET at == {i \in 1..Len(builder) : builder[i] = " font-size=\""}
    IN  builder[(CHOOSE i \in at : \A j \in at : j <= i) + 1]

\* C19 as stated: DrawText writes the size of the face when a face is given
\* and its size is positive, and the default size 12 when no face is given
\* or the size of the face is not positive.
C19_FaceSizeOrDefault ==
    call.op = "DrawText" =>
        FontSizeWritten
            = ToString(IF ~call.args.face.nil /\ call.args.face.Size > 0
                       THEN call.args.face.Size ELSE DefaultFontSize)

\* C19, amended: DrawText writes the size of the face when a face is given
\* and its size is positive; when a face is given and its size is not
\* positive, it writes the line height of the face if that is positive;
\* when no face is given, or neither is positive, it writes the default
\* size 12.
C19_FontSize ==
    call.op = "DrawText" =>
        LET face == call.args.face
        IN  FontSizeWritten
                = ToString(IF face.nil THEN DefaultFontSize
                           ELSE IF face.Size > 0 THEN face.Size
                           ELSE IF face.LineHeight > 0 THEN face.LineHeight
                           ELSE DefaultFontSize)

\* A face without a size and with a line height: the line height is written.
C19_Witness ==
    /\ call.op = "DrawText"
    /\ call.args.face = Face(0, 30)
    /\ FontSizeWritten = "30"

\* The positions in buf of the pieces that open a definition.
Openers(buf) == {i \in 1..Len(buf) : buf[i] \in DefOpeners}

\* The ID prefix of the kind of definition a piece opens.
IDPrefix(opener) ==
    CASE opener = "<clipPath id=\"" -> "clip"
      [] opener = "<linearGradient id=\"" -> "lg"
      [] opener = "<radialGradient id=\"" -> "rg"

\* C20: the ID counter equals the number of definitions (clip, linear and
\* radial) written to the definitions since the last Begin, and the n-th of
\* them carries the number n; the counter never decreases except in Begin;
\* every fill or stroke with a linear or radial gradient allocates a fresh
\* ID and writes a definition of its own, even when the same brush was used
\* before; a solid, sweep or unrecognised brush leaves the counter and the
\* definitions unchanged.
C20_CounterCountsDefinitions ==
    /\ [](/\ idCounter = Cardinality(Openers(defs))
          /\ \A i \in Openers(defs) :
                /\ i < Len(defs)
                /\ defs[i + 1] = IDPrefix(defs[i])
                       \o ToString(Cardinality({j \in Openers(defs) : j <= i})))
    /\ [][idCounter' < idCounter => call'.op = "Begin"]_vars
    /\ [][(Drew(DrawOps, "LinearGradientBrush") \/ Drew(DrawOps, "RadialGradientBrush")) =>
            /\ idCounter' = idCounter + 1
            /\ SubSeq(defs', 1, Len(defs)) = defs
            /\ Openers(NewDefs) = {1}
            /\ NewDefs[1] = (IF call'.args.brush.kind = "LinearGradientBrush"
                             THEN "<linearGradient id=\"" ELSE "<radialGradient id=\"")
            /\ \A i \in 1..Len(defs) : defs[i] # NewDefs[2]
            /\ Count(NewContent, NewDefs[2]) = 1]_vars
    /\ [][(\/ Drew(DrawOps, "SolidBrush")
           \/ Drew(DrawOps, "SweepGradientBrush")
           \/ Drew(DrawOps, "nil")) => UNCHANGED <<defs, idCounter>>]_vars

\* The same linear gradient brush used by two calls in a row: two
\* definitions, two IDs.
C20_Witness ==
    /\ call.op \in {"FillPath", "StrokePath"}
    /\ call.args.brush = Linear1
    /\ idCounter = 2
    /\ Count(defs, "<linearGradient id=\"") = 2
    /\ Count(defs, " spreadMethod=\"repeat\"") = 2
    /\ Count(defs, "lg1") = 1
    /\ Count(defs, "lg2") = 1
    /\ Count(builder, "lg1") = 1
    /\ Count(builder, "lg2") = 1

============================================================================
